---- MODULE Spec2Model ----
(***************************************************************************)
(* Instance.js (v1.0.0-beta.6): the Instance constructor (identity fusion  *)
(* through a cached specialized class per (UserClass, NativeElementClass)  *)
(* pair) and _copyMethodsToElement (two-pass descriptor merge).            *)
(*                                                                         *)
(* Objects are named by strings.  A class name stands both for the         *)
(* constructor function and, in the prototype graph, for its .prototype    *)
(* object: protoOf["Tab"] = "Instance" reads "the prototype of             *)
(* Tab.prototype is Instance.prototype", and protoOf["div1"] =             *)
(* "HTMLDivElement" reads "the prototype of div1 is                        *)
(* HTMLDivElement.prototype".                                              *)
(***************************************************************************)
EXTENDS Integers, Sequences, FiniteSets, TLC

\* ------------------------------------------------------------------ bounds
\* Number of calls the page makes in a run (constructions, assignments to
\* tab.main and to the configuration, Object.freeze).
MaxCalls == 4
\* Number of user levels of the hierarchy walked by the merge.
MaxLevels == 3

\* --------------------------------------------------------------- universe
None == "none"
Null == "null"
ObjectProto == "Object"
InstanceClass == "Instance"

\* class Tab extends Instance, class FancyTab extends Tab, and a second,
\* distinct class that is also called Tab (declared in another scope).
UserTypes == {"Instance", "Tab", "FancyTab", "TabTwin"}

Extends(T) ==
    CASE T = "Tab"      -> "Instance"
      [] T = "FancyTab" -> "Tab"
      [] T = "TabTwin"  -> "Instance"
      [] OTHER          -> None

HostTypes == {"HTMLDivElement", "HTMLButtonElement"}
HostClasses == HostTypes \cup {"HTMLElement"}

HostExtends(H) == IF H \in HostTypes THEN "HTMLElement" ELSE ObjectProto

Elements == {"div1", "div2", "button1"}

\* The host class of the element's tag.
TagClass(e) == IF e = "button1" THEN "HTMLButtonElement" ELSE "HTMLDivElement"

\* A call creates at most one specialized class.
BridgeIds == 1..MaxCalls
BridgeName(k) == "Specialized#" \o ToString(k)
Bridges == {BridgeName(k) : k \in BridgeIds}

Classes == UserTypes \cup HostClasses \cup Bridges
Nodes == Elements \cup Classes \cup {ObjectProto}

\* Function.name of a class: the specialized class is created by
\* `SpecializedClass = class extends UserClass {}`.
ClassName(C) ==
    CASE C = "TabTwin" -> "Tab"
      [] C \in Bridges -> "SpecializedClass"
      [] OTHER         -> C

Modes == {"flexible", "strict", "strictest"}

\* The user classes other than Instance itself.
SubTypes == UserTypes \ {InstanceClass}

VARIABLES
    protoOf,          \* [[Prototype]] of every element and class prototype
    bridgeUser,       \* specialized class -> the UserClass it extends (None: not created)
    bridgeHost,       \* specialized class -> the NativeElementClass it was created for
    fusedPairs,       \* the (UserClass, NativeElementClass) pairs of the calls that got past the cache
    created,          \* number of specialized classes created so far
    cache,            \* Instance.#elementTypeCache: key -> specialized class (None: no entry)
    isInstance,       \* element._isInstance
    instanceClass,    \* element.Instance
    ownConstructor,   \* own property element.constructor (None: absent)
    slot0,            \* element[0]
    nativeStatic,     \* own static property UserClass.native (None: absent)
    configConstructor,\* Instance.config.constructor: "unset" | "true" | "false"
    configMode,       \* Instance.config.mode
    configDebug,      \* Instance.config.debug
    ownMode,          \* user class -> mode of its own static config (None: no own
                      \* config, "unset": an own config without a mode)
    frozen,           \* objects made non-extensible/frozen by the environment
    privateData,      \* Instance.#privateData: "none" | "constructed" | "initialized"
    storedOptions,    \* Instance.#privateData.get(element).options, as the set of its keys
    inDocument,       \* document.documentElement.contains(element)
    connected,        \* element -> number of connected MutationObservers scoped to it
    registered,       \* Instance.#observers.has(element)
    fusedHost,        \* NativeElementClass of the element's last completed fusion
    last,             \* outcome of the last call
    calls,            \* number of calls the page has made so far
    levels,           \* key -> its descriptors in the hierarchy, root level first
    mergeKey,         \* the key the hierarchy under study declares
    propertyMap,      \* key -> the merge's record for it (NoRecord: no entry)
    ownProperty,      \* key -> own property of the merged element
    warnings,         \* Kernel.warn calls of the last merge, in order
    kernelCall,       \* the last direct call of a Kernel primitive and how it ended
    watchers,         \* registration -> the watcher whenInsertedTo made for it
    observerOf,       \* Instance.#observers: scope -> registration (0: no entry)
    hierarchy,        \* [[Prototype]] of the objects handed to Kernel.getPrototypeChain
    chainCall         \* the last call of Kernel.getPrototypeChain and what it returned

fusionVars == <<protoOf, bridgeUser, bridgeHost, fusedPairs, created, cache, isInstance, instanceClass,
                ownConstructor, slot0, nativeStatic, fusedHost>>
configVars == <<configConstructor, configMode, configDebug, ownMode>>
lifeVars   == <<privateData, storedOptions, inDocument, connected, registered>>
mergeVars  == <<levels, mergeKey, propertyMap, ownProperty, warnings>>
watchVars  == <<watchers, observerOf>>
chainVars  == <<hierarchy, chainCall>>
sideVars   == <<kernelCall, watchVars, chainVars>>
vars == <<fusionVars, configVars, lifeVars, mergeVars, sideVars, frozen, last, calls>>

\* ---------------------------------------------------------------- helpers
\* The prototype chain above n (n itself excluded), as a set.
RECURSIVE Ancestors(_, _, _)
Ancestors(po, n, fuel) ==
    IF fuel = 0 \/ n \notin DOMAIN po \/ po[n] = Null
    THEN {}
    ELSE {po[n]} \cup Ancestors(po, po[n], fuel - 1)

ChainFuel == Cardinality(Nodes) + 1

\* C.prototype.isPrototypeOf(n)
IsPrototypeOf(po, C, n) == C \in Ancestors(po, n, ChainFuel)

\* The user classes T extends, directly or not (T itself excluded).
RECURSIVE UserAncestors(_)
UserAncestors(T) ==
    IF Extends(T) = None THEN {} ELSE {Extends(T)} \cup UserAncestors(Extends(T))

\* The host classes H extends (H itself excluded).
HostAncestors(H) == IF H \in HostTypes THEN {"HTMLElement"} ELSE {}

\* Lookup of the static property `native` on a constructor function: own
\* property first, then the constructor it extends.  Host constructors and
\* Function.prototype carry no `native`.
RECURSIVE StaticNative(_, _, _)
StaticNative(ns, bu, C) ==
    CASE C \in UserTypes ->
            IF ns[C] # None THEN ns[C]
            ELSE IF Extends(C) = None THEN None
            ELSE StaticNative(ns, bu, Extends(C))
      [] C \in Bridges /\ bu[C] # None -> StaticNative(ns, bu, bu[C])
      [] OTHER -> None

\* element.constructor: the own property when there is one, else the
\* `constructor` of the first prototype on the chain.
ElementConstructor(e) ==
    IF ownConstructor[e] # None THEN ownConstructor[e] ELSE protoOf[e]

\* Instance.query(value) for an element argument.
Query(value) ==
    IF isInstance[value]
    THEN (IF slot0[value] # None THEN slot0[value] ELSE value)
    ELSE value

\* A cache key that leaves the native class out.
CacheKey_UserNameOnly(UserClass, NativeElementClass) == ClassName(UserClass)

\* Symbol.for(`${UserClass.name}:${NativeElementClass.name}`)
CacheKey(UserClass, NativeElementClass) ==
    ClassName(UserClass) \o ":" \o ClassName(NativeElementClass)

\* value instanceof U for a user class U and an element: U has no
\* Symbol.hasInstance of its own - `subclass[Symbol.hasInstance]` finds the
\* static method of Instance through the constructor chain, so the
\* constructor never installs one - and the static method of Instance
\* answers for Instance whatever class it was reached from: true for any
\* marked element, else Instance.prototype on the chain of the value.
InstanceOf(value, U) ==
    IF isInstance[value] THEN TRUE
    ELSE IsPrototypeOf(protoOf, InstanceClass, value)

\* The while loop of the constructor: the node whose prototype is rewritten.
RECURSIVE WalkTarget(_, _, _)
WalkTarget(po, currentProto, fuel) ==
    LET nextProto == po[currentProto] IN
    IF fuel = 0 THEN None
    ELSE IF currentProto = InstanceClass
            \/ nextProto = ObjectProto \/ nextProto = Null
         THEN currentProto
         ELSE WalkTarget(po, nextProto, fuel - 1)

\* Object.setPrototypeOf(O, V.prototype) throws a TypeError when O is not
\* extensible and V is not already its prototype, or when O is on V's chain.
SetPrototypeThrows(po, fr, O, V) ==
    /\ po[O] # V
    /\ \/ O \in fr
       \/ O = V
       \/ O \in Ancestors(po, V, ChainFuel)

CacheKeys == {CacheKey(T, H) : T \in UserTypes, H \in Classes}

NoCall == [op |-> "none", user |-> None, arg |-> None, element |-> None,
           host |-> None, outcome |-> "none", ret |-> None,
           createdNow |-> 0, hit |-> FALSE, steps |-> << >>, warned |-> FALSE,
           again |-> FALSE, firstOfPair |-> FALSE, failed |-> "none"]

\* ------------------------------------------------------------ descriptors
\* A function or the value undefined; `this` is the receiver a bound function
\* was bound to.
Undefined == [kind |-> "undefined", id |-> "", this |-> ""]
Fn(id) == [kind |-> "function", id |-> id, this |-> "unbound"]

LevelIds == 1..MaxLevels
LevelName(i) == "L" \o ToString(i)

\* What Object.getOwnPropertyDescriptor(proto, name) returns at a level: no
\* descriptor, a data descriptor (a method), or an accessor descriptor with
\* either half possibly undefined.
NoDescriptor ==
    [type |-> "absent", value |-> Undefined, get |-> Undefined, set |-> Undefined,
     writable |-> FALSE, enumerable |-> FALSE, configurable |-> FALSE]

DataDescriptors ==
    {[type |-> "data", value |-> Fn("value"),
      get |-> Undefined, set |-> Undefined,
      writable |-> w, enumerable |-> e, configurable |-> c] :
        w \in BOOLEAN, e \in BOOLEAN, c \in BOOLEAN}

AccessorDescriptors ==
    {[type |-> "accessor", value |-> Undefined, get |-> g, set |-> st,
      writable |-> FALSE, enumerable |-> FALSE, configurable |-> c] :
        g \in {Undefined, Fn("get")},
        st \in {Undefined, Fn("set")},
        c \in BOOLEAN}

Descriptors == {NoDescriptor} \cup DataDescriptors \cup AccessorDescriptors

\* The functions of a class body are objects of their own: the descriptor d
\* as declared at level i of the hierarchy.
DeclaredAt(f, i) == IF f.kind = "function" THEN [f EXCEPT !.id = @ \o LevelName(i)] ELSE f
AtLevel(d, i) ==
    [d EXCEPT !.value = DeclaredAt(@, i), !.get = DeclaredAt(@, i), !.set = DeclaredAt(@, i)]

\* An entry of propertyMap.  An accessor entry has no `writable` field, which
\* a later level reads as `existing?.writable ?? true`.
NoRecord ==
    [type |-> "none", value |-> Undefined, get |-> Undefined, set |-> Undefined,
     writable |-> TRUE, enumerable |-> FALSE, shouldLock |-> FALSE]

\* Property keys: a user key, a string key the prototype of one host class
\* defines (HTMLButtonElement.prototype.value), a string key and a symbol key
\* the prototypes of every host class define.
StringKeys == {"color", "value", "title"}
SymbolKeys == {"@@toStringTag"}
Keys == StringKeys \cup SymbolKeys

\* [...getOwnPropertyNames(proto), ...getOwnPropertySymbols(proto)]
KeyOrder == <<"color", "value", "title", "@@toStringTag">>

\* typeof name === 'string'
IsString(name) == name \in StringKeys

\* The key of the hierarchies whose every shape is explored.
MergeKeys == {"color"}

\* The element the merge is run on.
MergedElement == "div1"

NoLevels == [i \in LevelIds |-> NoDescriptor]

\* ----------------------------------------------------------------- Kernel
\* The safe wrappers of class Kernel.
KernelPrimitives ==
    {"getPrototypeOf", "getOwnPropertyNames", "getOwnPropertySymbols",
     "getOwnPropertyDescriptor", "defineProperty", "has",
     "arrayPush", "arrayReverse", "arrayIncludes", "arrayForEach", "bind",
     "log", "warn", "error", "createElement", "getTagName", "removeElement"}

\* The first argument of the call: a value of the kind the primitive expects,
\* the same frozen, null, undefined, or a Proxy whose every trap throws.
KernelArguments == {"fitting", "frozen", "null", "undefined", "hostile"}

\* The captured built-in throws on this argument.
RawThrows(primitive, argument) ==
    CASE argument = "fitting" -> FALSE
      [] argument = "frozen"  ->
            primitive \in {"defineProperty", "arrayPush", "arrayReverse"}
      [] argument \in {"null", "undefined"} ->
            primitive \notin {"log", "warn", "error", "createElement"}
      [] OTHER -> TRUE

\* What the catch block of the wrapper returns.
SafeDefault(primitive) ==
    CASE primitive = "getPrototypeOf" -> "null"
      [] primitive \in {"getOwnPropertyNames", "getOwnPropertySymbols"} -> "[]"
      [] primitive \in {"defineProperty", "has", "arrayIncludes", "removeElement"} -> "false"
      [] primitive = "arrayPush" -> "arr.length"
      [] primitive = "arrayReverse" -> "arr"
      [] primitive = "bind" -> "() => undefined"
      [] primitive \in {"createElement", "getTagName"} -> "null"
      [] OTHER -> "undefined"

\* The catch block itself throws: `return arr.length` reads a property of
\* null or undefined, or runs the `get` trap of the Proxy.
CatchThrows(primitive, argument) ==
    primitive = "arrayPush" /\ argument \in {"null", "undefined", "hostile"}

NoKernelCall == [primitive |-> None, argument |-> None, outcome |-> "none", value |-> None]

\* Kernel.<primitive>(argument, ...)
KernelResult(primitive, argument) ==
    IF ~RawThrows(primitive, argument)
    THEN [primitive |-> primitive, argument |-> argument,
          outcome |-> "returned", value |-> "result"]
    ELSE IF CatchThrows(primitive, argument)
    THEN [primitive |-> primitive, argument |-> argument,
          outcome |-> "threw", value |-> "TypeError"]
    ELSE [primitive |-> primitive, argument |-> argument,
          outcome |-> "returned", value |-> SafeDefault(primitive)]

\* -------------------------------------------------------- prototype chain
\* Number of nodes Kernel.getPrototypeChain may be asked for (maxDepth runs
\* over 1..MaxDepth; Kernel.MAX_PROTOTYPE_DEPTH is the default).
MaxDepth == 3

\* The objects of the hierarchies handed to Kernel.getPrototypeChain.  What
\* Kernel.getPrototypeOf answers for each of them is any of the objects,
\* Object.prototype or null: the answer of a Proxy's getPrototypeOf trap is
\* the trap's to choose, so the graph may have cycles.
ChainNodes == {"n1", "n2", "n3", "n4"}
Hierarchies == [ChainNodes -> ChainNodes \cup {ObjectProto, Null}]
NoHierarchy == [n \in ChainNodes |-> Null]

NoChainCall == [obj |-> None, maxDepth |-> 0, chain |-> << >>, warned |-> << >>]

\* A walk that never looks at the visited set.
SeenHas_Never(seen, current) == FALSE

\* seen.has(current)
SeenHas(seen, current) == current \in seen

\* The while loop of Kernel.getPrototypeChain from the state (current, depth,
\* chain, seen): the chain returned and the warnings logged.
RECURSIVE ChainLoop(_, _, _, _, _, _, _)
ChainLoop(parent, maxDepth, current, depth, chain, seen, warned) ==
    IF current = Null \/ current = ObjectProto \/ ~(depth < maxDepth)
    THEN [chain |-> chain, warned |-> warned]
    ELSE IF SeenHas(seen, current)
    THEN [chain |-> chain,
          warned |-> Append(warned, "Circular prototype chain detected")]
    ELSE ChainLoop(parent, maxDepth, parent[current], depth + 1,
                   Append(chain, current), seen \cup {current},
                   IF depth + 1 >= maxDepth
                   THEN Append(warned, "Prototype chain exceeds max depth")
                   ELSE warned)

\* Kernel.getPrototypeChain(obj, maxDepth)
GetPrototypeChain(parent, obj, maxDepth) ==
    ChainLoop(parent, maxDepth, obj, 0, << >>, {}, << >>)

\* --------------------------------------------------------------- watchers
\* A call registers at most one watcher.
WatchIds == 1..MaxCalls

\* state: "none" (not registered), "immediate" (the element was already
\* inside the root: no observer), "connected", "disconnected".  pending is
\* the number of undelivered mutation records whose added node is or
\* contains the element.
NoWatcher == [state |-> "none", element |-> None, scope |-> None, throws |-> FALSE,
              fired |-> 0, pending |-> 0]

FusionInit ==
    /\ protoOf = [n \in Nodes |->
                    CASE n \in Elements    -> TagClass(n)
                      [] n = InstanceClass -> ObjectProto
                      [] n \in UserTypes   -> Extends(n)
                      [] n \in HostClasses -> HostExtends(n)
                      [] OTHER             -> Null]
    /\ bridgeUser = [b \in Bridges |-> None]
    /\ bridgeHost = [b \in Bridges |-> None]
    /\ fusedPairs = {}
    /\ created = 0
    /\ cache = [k \in CacheKeys |-> None]
    /\ isInstance = [e \in Elements |-> FALSE]
    /\ instanceClass = [e \in Elements |-> None]
    /\ ownConstructor = [e \in Elements |-> None]
    /\ slot0 = [e \in Elements |-> None]
    /\ nativeStatic = [T \in UserTypes |-> None]
    /\ fusedHost = [e \in Elements |-> None]
    /\ configConstructor = "unset"
    /\ ownMode = [T \in SubTypes |-> None]
    /\ frozen = {}
    /\ privateData = [e \in Elements |-> "none"]
    /\ storedOptions = [e \in Elements |-> {}]
    /\ connected = [e \in Elements |-> 0]
    /\ registered = [e \in Elements |-> FALSE]
    /\ last = NoCall
    /\ calls = 0
    /\ kernelCall = NoKernelCall
    /\ chainCall = NoChainCall
    /\ watchers = [id \in WatchIds |-> NoWatcher]
    /\ observerOf = [e \in Elements |-> 0]

Init ==
    /\ FusionInit
    /\ hierarchy = NoHierarchy
    /\ configMode = "flexible"
    /\ configDebug = FALSE
    /\ inDocument = [e \in Elements |-> TRUE]
    /\ levels = [k \in Keys |-> NoLevels]
    /\ mergeKey = "color"
    /\ propertyMap = [k \in Keys |-> NoRecord]
    /\ ownProperty = [k \in Keys |-> NoDescriptor]
    /\ warnings = << >>

\* ------------------------------------------------------------------ merge
InstanceInternals == {"constructor", "_copyMethodsToElement", "_getPrivate", "_setPrivate"}

\* Own keys of the host prototypes; every interface prototype carries
\* Symbol.toStringTag.
HostOwnKeys(H) ==
    CASE H = "HTMLDivElement"    -> {"align", "@@toStringTag"}
      [] H = "HTMLButtonElement" -> {"disabled", "value", "@@toStringTag"}
      [] H = "HTMLElement"       -> {"title", "@@toStringTag"}
      [] OTHER                   -> {}

\* Kernel.isNativeDOMProperty(element, propName): Reflect.has on a fresh
\* element of the same tag.
IsNativeDOMProperty(element, propName) ==
    \E H \in {TagClass(element)} \cup HostAncestors(TagClass(element)) :
        propName \in HostOwnKeys(H)

\* A string, as the value of a data property.
Str(id) == [kind |-> "string", id |-> id, this |-> ""]

\* Object.getOwnPropertyDescriptor(H.prototype, k) for a host class: an IDL
\* attribute is an enumerable, configurable accessor; Symbol.toStringTag is a
\* read-only, configurable data property holding the interface name.
HostDescriptor(H, k) ==
    IF H \notin HostClasses \/ k \notin HostOwnKeys(H) THEN NoDescriptor
    ELSE IF IsString(k)
    THEN [type |-> "accessor", value |-> Undefined,
          get |-> Fn("get" \o H), set |-> Fn("set" \o H),
          writable |-> FALSE, enumerable |-> TRUE, configurable |-> TRUE]
    ELSE [type |-> "data", value |-> Str(H), get |-> Undefined, set |-> Undefined,
          writable |-> FALSE, enumerable |-> FALSE, configurable |-> TRUE]

\* The part of Kernel.getPrototypeChain(this) above Instance.prototype, once
\* reversed: the descriptors of key k on the prototypes from the one below
\* Object.prototype down to the one Instance.prototype points at.
RECURSIVE HostLevels(_, _, _, _)
HostLevels(po, n, k, fuel) ==
    IF fuel = 0 \/ n \in {ObjectProto, Null} THEN << >>
    ELSE Append(HostLevels(po, po[n], k, fuel - 1), HostDescriptor(n, k))

\* The descriptors of key k along Kernel.getPrototypeChain(this) reversed:
\* the prototypes Instance.prototype is linked to, then the user levels.
ChainLevels(po, lv, k) == HostLevels(po, po[InstanceClass], k, ChainFuel) \o lv[k]

\* A bind that hands the function back as it is.
Bind_Never(fn, thisArg) == fn

\* Kernel.bind(fn, thisArg): Function.prototype.bind; the receiver of a
\* function that is already bound stays the one it was bound to.
Bind(fn, thisArg) == IF fn.this = "unbound" THEN [fn EXCEPT !.this = thisArg] ELSE fn

IsFunction(v) == v.kind = "function"
Truthy(v) == v.kind # "undefined"

\* A strictest policy that lets a locked record be overridden.
RejectsLocked_Never(mode, existing) == FALSE

\* mode === 'strictest' && existing?.shouldLock
RejectsLocked(mode, existing) ==
    mode = "strictest" /\ existing.type # "none" /\ existing.shouldLock

\* A merge that always takes both halves from the level at hand.
PartialMerge_Never(mode, existing) == FALSE

\* !(mode === 'flexible' || !existing || existing.type !== 'accessor'): the
\* halves the level leaves undefined are taken from the existing entry.
PartialMerge(mode, existing) ==
    mode # "flexible" /\ existing.type = "accessor"

\* A lock decided by the level at hand alone, under every policy.
ShouldLock_ChildWins(mode, existing, descriptor) == ~descriptor.configurable

\* shouldLock: the level's own flag under `flexible`, else the level's flag
\* or the flag of the existing entry.
ShouldLock(mode, existing, descriptor) ==
    IF mode = "flexible"
    THEN ~descriptor.configurable
    ELSE (~descriptor.configurable) \/ (existing.type # "none" /\ existing.shouldLock)

\* Pass 1, the body of the inner forEach for one (proto, name): the entry of
\* propertyMap after the level and the warnings the level logs.
MergeLevel(mode, name, element, existing, descriptor) ==
    LET has        == existing.type # "none"
        isData     == descriptor.type = "data"
        isAccessor == Truthy(descriptor.get) \/ Truthy(descriptor.set)
        keep       == [entry |-> existing, warned |-> << >>]
        converted  == IF has /\ mode = "strict" /\ configDebug
                         /\ (existing.type = "data") # isData
                      THEN <<"Converting property type for">>
                      ELSE << >>
        shouldLock == ShouldLock(mode, existing, descriptor)
        writable   == IF mode = "flexible"
                      THEN (IF isData THEN descriptor.writable ELSE TRUE)
                      ELSE (IF isData
                            THEN descriptor.writable /\ (IF has THEN existing.writable ELSE TRUE)
                            ELSE TRUE)
        enumerable == descriptor.enumerable
        partial    == PartialMerge(mode, existing)
        finalGet   == IF Truthy(descriptor.get) THEN Bind(descriptor.get, element)
                      ELSE IF partial THEN existing.get ELSE Undefined
        finalSet   == IF Truthy(descriptor.set) THEN Bind(descriptor.set, element)
                      ELSE IF partial THEN existing.set ELSE Undefined
    IN
    IF IsString(name) /\ name \in InstanceInternals THEN keep
    ELSE IF descriptor.type = "absent" THEN keep
    ELSE IF IsString(name) /\ IsNativeDOMProperty(element, name) THEN keep
    ELSE IF RejectsLocked(mode, existing)
         THEN [entry |-> existing, warned |-> <<"Cannot override non-configurable parent property">>]
    ELSE IF has /\ mode = "strictest" /\ (existing.type = "data") # isData
         THEN [entry |-> existing, warned |-> <<"Cannot convert between data/accessor in strictest mode">>]
    ELSE IF isData
         THEN [entry |-> [type |-> "data",
                          value |-> IF IsFunction(descriptor.value)
                                    THEN Bind(descriptor.value, element)
                                    ELSE descriptor.value,
                          get |-> Undefined, set |-> Undefined,
                          writable |-> writable, enumerable |-> enumerable,
                          shouldLock |-> shouldLock],
               warned |-> converted]
    ELSE IF isAccessor
         THEN [entry |-> [type |-> "accessor", value |-> Undefined,
                          get |-> finalGet, set |-> finalSet,
                          writable |-> TRUE, enumerable |-> enumerable,
                          shouldLock |-> shouldLock],
               warned |-> converted]
    ELSE [entry |-> existing, warned |-> converted]

\* Pass 2 for one entry: the descriptor handed to Kernel.defineProperty.
CommitDescriptor(entry) ==
    CASE entry.type = "data" ->
            [type |-> "data", value |-> entry.value,
             get |-> Undefined, set |-> Undefined,
             writable |-> entry.writable, enumerable |-> entry.enumerable,
             configurable |-> ~entry.shouldLock]
      [] entry.type = "accessor" ->
            [type |-> "accessor", value |-> Undefined,
             get |-> entry.get, set |-> entry.set,
             writable |-> FALSE, enumerable |-> entry.enumerable,
             configurable |-> ~entry.shouldLock]
      [] OTHER -> NoDescriptor

\* T.config: the own static `config` of T or of the nearest class it
\* extends that has one; Instance always has one.
RECURSIVE ConfigHolder(_, _)
ConfigHolder(om, T) ==
    IF T = InstanceClass THEN InstanceClass
    ELSE IF om[T] # None THEN T
    ELSE ConfigHolder(om, Extends(T))

\* T.config.mode
ConfigModeOf(cm, om, T) ==
    LET holder == ConfigHolder(om, T)
    IN IF holder = InstanceClass THEN cm ELSE om[holder]

\* A mode value that `||` takes.
TruthyMode(m) == m \notin {"", "unset"}

\* this.constructor.config?.mode || Instance.config.mode || 'strict', for an
\* object whose constructor is T.
ModeFor(cm, om, T) ==
    IF TruthyMode(ConfigModeOf(cm, om, T)) THEN ConfigModeOf(cm, om, T)
    ELSE IF TruthyMode(cm) THEN cm
    ELSE "strict"

\* The mode of a merge run for a hierarchy that declares no config of its own.
MergeMode == ModeFor(configMode, ownMode, InstanceClass)

\* Pass 1 for one key, level by level: the entry of propertyMap and the
\* warnings logged at each of the levels i..n.
RECURSIVE History(_, _, _, _, _, _)
History(mode, name, element, lv, i, existing) ==
    IF i > Len(lv) THEN << >>
    ELSE LET r == MergeLevel(mode, name, element, existing, lv[i])
         IN <<r>> \o History(mode, name, element, lv, i + 1, r.entry)

\* Pass 1 for one key, parent first, child last: the entry of propertyMap
\* once every level has been walked.  hist is the History of the key.
PassOne(hist) == IF hist = << >> THEN NoRecord ELSE hist[Len(hist)].entry

\* The record of key k after the levels 1..i of Pass 1 (i = 0: no entry).
RecordAfter(mode, element, k, i) ==
    IF i = 0 THEN NoRecord
    ELSE History(mode, k, element, levels[k], 1, NoRecord)[i].entry

Tagged(msgs, k) == [n \in DOMAIN msgs |-> [msg |-> msgs[n], key |-> k]]

\* The warnings of Pass 1 in the order they are logged: prototypes outer,
\* keys inner.  hist[k] is the History of key k.
RECURSIVE PassOneWarnings(_, _, _)
PassOneWarnings(hist, i, n) ==
    IF i > Len(hist[KeyOrder[1]]) THEN << >>
    ELSE IF n > Len(KeyOrder) THEN PassOneWarnings(hist, i + 1, 1)
    ELSE Tagged(hist[KeyOrder[n]][i].warned, KeyOrder[n])
         \o PassOneWarnings(hist, i, n + 1)

\* SameValue(a, b) of defineProperty: Kernel.bind returns a new function
\* object at every call, the same as no function already stored.
SameValue(a, b) == a = b /\ ~(a.kind = "function" /\ a.this # "unbound")

\* Object.defineProperty(obj, prop, desc) throws a TypeError: the object is
\* not extensible and has no such property, or the property is not
\* configurable and desc would change it.
DefinePropertyThrows(current, desc, nonExtensible) ==
    IF current.type = "absent" THEN nonExtensible
    ELSE IF current.configurable THEN FALSE
    ELSE \/ desc.configurable
         \/ desc.enumerable # current.enumerable
         \/ desc.type # current.type
         \/ /\ desc.type = "data"
            /\ ~current.writable
            /\ (desc.writable \/ ~SameValue(desc.value, current.value))
         \/ /\ desc.type = "accessor"
            /\ (~SameValue(desc.get, current.get) \/ ~SameValue(desc.set, current.set))

\* Kernel.defineProperty(obj, prop, descriptor): true, or false when the
\* definition throws.
KernelDefineProperty(current, desc, nonExtensible) ==
    ~DefinePropertyThrows(current, desc, nonExtensible)

\* The keys of propertyMap in insertion order: by the first level that set
\* the key, then by the order of the keys of a level.
RECURSIVE MapOrder(_, _, _)
MapOrder(hist, i, n) ==
    IF i > Len(hist[KeyOrder[1]]) THEN << >>
    ELSE IF n > Len(KeyOrder) THEN MapOrder(hist, i + 1, 1)
    ELSE (IF /\ hist[KeyOrder[n]][i].entry.type # "none"
             /\ \A j \in 1..(i - 1) : hist[KeyOrder[n]][j].entry.type = "none"
          THEN <<KeyOrder[n]>> ELSE << >>)
         \o MapOrder(hist, i, n + 1)

FailedToDefine(desc, k) ==
    [msg |-> IF desc.type = "data"
             THEN "Failed to define data property"
             ELSE "Failed to define accessor property",
     key |-> k]

\* A Pass 2 whose first failed definition escapes the loop: the outer catch
\* logs one warning and the remaining records are never attempted.
RECURSIVE PassTwo_StopsAtFailure(_, _, _, _)
PassTwo_StopsAtFailure(final, own, nonExtensible, order) ==
    IF order = << >> THEN [own |-> own, warned |-> << >>]
    ELSE LET k    == Head(order)
             desc == CommitDescriptor(final[k])
         IN IF KernelDefineProperty(own[k], desc, nonExtensible)
            THEN PassTwo_StopsAtFailure(final, [own EXCEPT ![k] = desc],
                                        nonExtensible, Tail(order))
            ELSE [own |-> own,
                  warned |-> <<[msg |-> "Unknown proto failure. Methods could not be copied.",
                                key |-> k]>>]

\* Pass 2, propertyMap.forEach over the keys `order`: the own properties of
\* the element afterwards and the warnings of the failed definitions.
RECURSIVE PassTwo(_, _, _, _)
PassTwo(final, own, nonExtensible, order) ==
    IF order = << >> THEN [own |-> own, warned |-> << >>]
    ELSE LET k       == Head(order)
             desc    == CommitDescriptor(final[k])
             success == KernelDefineProperty(own[k], desc, nonExtensible)
             rest    == PassTwo(final,
                                IF success THEN [own EXCEPT ![k] = desc] ELSE own,
                                nonExtensible, Tail(order))
         IN [own |-> rest.own,
             warned |-> (IF success THEN << >> ELSE <<FailedToDefine(desc, k)>>)
                        \o rest.warned]

\* obj._copyMethodsToElement(element): Pass 1 over every key of the
\* hierarchy, then Pass 2 over propertyMap.  The method never throws.
CopyMethodsToElement(element) ==
    \E hist \in {[k \in Keys |->
                    History(MergeMode, k, element, ChainLevels(protoOf, levels, k), 1, NoRecord)]} :
    \E final \in {[k \in Keys |-> PassOne(hist[k])]} :
    \E two \in {PassTwo(final, ownProperty, element \in frozen, MapOrder(hist, 1, 1))} :
    /\ propertyMap' = final
    /\ ownProperty' = two.own
    /\ warnings' = PassOneWarnings(hist, 1, 1) \o two.warned
    /\ last' = [NoCall EXCEPT !.op = "copyMethods", !.element = element,
                              !.outcome = "returned"]
    /\ UNCHANGED <<sideVars, fusionVars, configVars, lifeVars, levels, mergeKey, frozen, calls>>

\* ------------------------------------------------------------ constructor
\* const NativeElementClass = element.constructor?.native || element.constructor
NativeElementClassOf(e) ==
    LET ctor == ElementConstructor(e)
        nat  == StaticNative(nativeStatic, bridgeUser, ctor)
    IN IF nat # None THEN nat ELSE ctor

\* this.constructor.config?.constructor ?? Instance.config.constructor ?? true
OverrideConstructor == configConstructor # "false"

\* A constructor without the final `return element` evaluates to `this`.
ReturnValue_This(element) == "this"

\* What `new T(...)` evaluates to: the constructor ends with `return element`,
\* which replaces the freshly allocated `this`.
ReturnValue(element) == element

\* The phases a construction that reaches its end has run, in order.  The call
\* `this._copyMethodsToElement(element)` is commented out in the constructor.
ConstructSteps(autoInit) ==
    <<"fuse">> \o (IF autoInit THEN <<"init">> ELSE << >>)

\* The keys of the options the constructor builds from (arg, {autoInit,
\* root}): {...maybeOptions, main: value}.
ConstructorOptions(autoInit, root) ==
    {"main"} \cup (IF autoInit THEN {} ELSE {"autoInit"})
             \cup (IF root = "default" THEN {} ELSE {"root"})

\* new T(arg, {autoInit, root}) with an element as first argument.
Construct(T, arg, autoInit, root) ==
    LET element     == Query(arg)
        H           == NativeElementClassOf(element)
        cacheKey    == CacheKey(T, H)
        hit         == cache[cacheKey] # None
        b           == BridgeName(created + 1)
        po1         == [protoOf EXCEPT ![b] = T]
        target      == WalkTarget(po1, b, ChainFuel)
        linkThrows  == SetPrototypeThrows(po1, frozen, target, H)
        po2         == [po1 EXCEPT ![target] = H]
        Specialized == IF hit THEN cache[cacheKey] ELSE b
        poF         == IF hit THEN protoOf ELSE po2
        elemThrows  == element \in frozen
        initThrows  == autoInit /\ root = "notANode"
        call        == [op |-> "construct", user |-> T, arg |-> arg,
                        element |-> element, host |-> H,
                        createdNow |-> IF hit THEN 0 ELSE 1, hit |-> hit,
                        warned |-> FALSE, again |-> isInstance[element],
                        firstOfPair |-> <<T, H>> \notin fusedPairs]
    IN
    /\ calls < MaxCalls
    /\ calls' = calls + 1
    /\ UNCHANGED <<sideVars, configVars, mergeVars, frozen, inDocument>>
    /\ IF ~hit
       THEN /\ created' = created + 1
            /\ bridgeUser' = [bridgeUser EXCEPT ![b] = T]
            /\ bridgeHost' = [bridgeHost EXCEPT ![b] = H]
       ELSE UNCHANGED <<created, bridgeUser, bridgeHost>>
    /\ IF ~hit /\ linkThrows
       THEN \* Object.setPrototypeOf(currentProto, ...) throws: nothing is cached
            /\ protoOf' = po1
            /\ last' = call @@ [outcome |-> "threw", ret |-> None, steps |-> << >>,
                                failed |-> "link"]
            /\ UNCHANGED <<cache, fusedPairs, isInstance, instanceClass, ownConstructor,
                           slot0, nativeStatic, fusedHost, lifeVars>>
       ELSE
         /\ cache' = IF hit THEN cache ELSE [cache EXCEPT ![cacheKey] = b]
         /\ fusedPairs' = fusedPairs \cup {<<T, H>>}
         /\ IF elemThrows
            THEN \* Object.setPrototypeOf(element, ...) or the first write throws
                 /\ protoOf' = poF
                 /\ last' = call @@ [outcome |-> "threw", ret |-> None,
                                     steps |-> << >>, failed |-> "element"]
                 /\ UNCHANGED <<isInstance, instanceClass, ownConstructor,
                                slot0, nativeStatic, fusedHost, lifeVars>>
            ELSE
              /\ protoOf' = [poF EXCEPT ![element] = Specialized]
              /\ isInstance' = [isInstance EXCEPT ![element] = TRUE]
              /\ instanceClass' = [instanceClass EXCEPT ![element] = T]
              /\ slot0' = [slot0 EXCEPT ![element] = element]
              /\ fusedHost' = [fusedHost EXCEPT ![element] = H]
              /\ IF OverrideConstructor
                 THEN /\ ownConstructor' = [ownConstructor EXCEPT ![element] = T]
                      /\ nativeStatic' = [nativeStatic EXCEPT ![T] = H]
                 ELSE UNCHANGED <<ownConstructor, nativeStatic>>
              /\ privateData' = [privateData EXCEPT ![element] =
                                   IF autoInit THEN "initialized" ELSE "constructed"]
              /\ storedOptions' = [storedOptions EXCEPT ![element] =
                                     ConstructorOptions(autoInit, root)]
              /\ IF autoInit /\ ~initThrows /\ ~inDocument[element]
                 THEN /\ connected' = [connected EXCEPT ![element] = @ + 1]
                      /\ registered' = [registered EXCEPT ![element] = TRUE]
                 ELSE UNCHANGED <<connected, registered>>
              /\ last' = IF initThrows
                         THEN call @@ [outcome |-> "threw", ret |-> None,
                                       steps |-> <<"fuse">>, failed |-> "init"]
                         ELSE call @@ [outcome |-> "returned",
                                       ret |-> ReturnValue(element),
                                       steps |-> ConstructSteps(autoInit),
                                       failed |-> "none"]

\* tab.main = v (set main(v) { this[0] = v; }) on a fused element.
SetMain(e, v) ==
    /\ isInstance[e]
    /\ e \notin frozen
    /\ slot0[e] # v
    /\ calls < MaxCalls
    /\ calls' = calls + 1
    /\ slot0' = [slot0 EXCEPT ![e] = v]
    /\ last' = [NoCall EXCEPT !.op = "setMain", !.arg = e]
    /\ UNCHANGED <<sideVars, protoOf, bridgeUser, bridgeHost, fusedPairs, created, cache,
                   isInstance, instanceClass,
                   ownConstructor, nativeStatic, fusedHost, configVars, lifeVars,
                   mergeVars, frozen>>

\* Instance.config.constructor = true | false
SetConstructorOverride(v) ==
    /\ configConstructor # v
    /\ calls < MaxCalls
    /\ calls' = calls + 1
    /\ configConstructor' = v
    /\ last' = [NoCall EXCEPT !.op = "config"]
    /\ UNCHANGED <<sideVars, fusionVars, configMode, configDebug, ownMode, lifeVars, mergeVars, frozen>>

\* An own property after Object.freeze: not configurable and, for a data
\* property, not writable.
FrozenProperty(d) ==
    IF d.type = "absent" THEN d
    ELSE [d EXCEPT !.configurable = FALSE,
                   !.writable = IF d.type = "data" THEN FALSE ELSE @]

\* Object.freeze(n) by the page: an element or Instance.prototype.
Freeze(n) ==
    /\ n \notin frozen
    /\ calls < MaxCalls
    /\ calls' = calls + 1
    /\ frozen' = frozen \cup {n}
    /\ ownProperty' = IF n = MergedElement
                      THEN [k \in Keys |-> FrozenProperty(ownProperty[k])]
                      ELSE ownProperty
    /\ last' = [NoCall EXCEPT !.op = "freeze", !.arg = n]
    /\ UNCHANGED <<sideVars, fusionVars, configVars, lifeVars, levels, mergeKey, propertyMap, warnings>>

\* new T(element): autoInit and root left at their defaults.
ConstructCall ==
    \E T \in UserTypes, arg \in Elements : Construct(T, arg, TRUE, "default")

SetMainCall == \E e \in Elements, v \in Elements : SetMain(e, v)

SetConstructorOverrideCall == \E v \in {"true", "false"} : SetConstructorOverride(v)

FreezeCall == \E n \in Elements \cup {InstanceClass} : Freeze(n)

\* Construction by a page that configures the library and reuses elements.
Next ==
    \/ ConstructCall
    \/ SetMainCall
    \/ SetConstructorOverrideCall

Spec == Init /\ [][Next]_vars

\* The same page when every user class has a name of its own.
ConstructDistinctNamesCall ==
    \E T \in UserTypes \ {"TabTwin"}, arg \in Elements :
        Construct(T, arg, TRUE, "default")

NextDistinctNames ==
    \/ ConstructDistinctNamesCall
    \/ SetMainCall
    \/ SetConstructorOverrideCall

SpecDistinctNames == Init /\ [][NextDistinctNames]_vars

\* Construction in a page that freezes objects.
NextHostile ==
    \/ ConstructCall
    \/ FreezeCall

SpecHostile == Init /\ [][NextHostile]_vars

\* The merge run on a freshly declared hierarchy of MaxLevels user classes.
MergeInit ==
    /\ FusionInit
    /\ hierarchy = NoHierarchy
    /\ inDocument = [e \in Elements |-> TRUE]
    /\ configMode \in Modes
    /\ configDebug = FALSE
    /\ mergeKey \in MergeKeys
    /\ \E h \in [LevelIds -> Descriptors] :
           levels = [k \in Keys |->
                       IF k = mergeKey THEN [i \in LevelIds |-> AtLevel(h[i], i)]
                       ELSE NoLevels]
    /\ propertyMap = [k \in Keys |-> NoRecord]
    /\ ownProperty = [k \in Keys |-> NoDescriptor]
    /\ warnings = << >>

CopyMethodsCall == CopyMethodsToElement(MergedElement)

NextMerge == CopyMethodsCall

SpecMerge == MergeInit /\ [][NextMerge]_vars

\* The descriptors of the hierarchies of the kind-change runs: enumerable is
\* left at false.
KindDescriptors == {d \in Descriptors : ~d.enumerable}

\* The merge run on a freshly declared hierarchy, with Instance.config.debug
\* on or off.
KindInit ==
    /\ FusionInit
    /\ hierarchy = NoHierarchy
    /\ inDocument = [e \in Elements |-> TRUE]
    /\ configMode \in Modes
    /\ configDebug \in BOOLEAN
    /\ mergeKey \in MergeKeys
    /\ \E h \in [LevelIds -> KindDescriptors] :
           levels = [k \in Keys |->
                       IF k = mergeKey THEN [i \in LevelIds |-> AtLevel(h[i], i)]
                       ELSE NoLevels]
    /\ propertyMap = [k \in Keys |-> NoRecord]
    /\ ownProperty = [k \in Keys |-> NoDescriptor]
    /\ warnings = << >>

NextKind == CopyMethodsCall

SpecKind == KindInit /\ [][NextKind]_vars

\* Kernel.getPrototypeChain run on hierarchies of every shape.
ChainInit ==
    /\ FusionInit
    /\ hierarchy \in Hierarchies
    /\ configMode = "flexible"
    /\ configDebug = FALSE
    /\ inDocument = [e \in Elements |-> TRUE]
    /\ levels = [k \in Keys |-> NoLevels]
    /\ mergeKey = "color"
    /\ propertyMap = [k \in Keys |-> NoRecord]
    /\ ownProperty = [k \in Keys |-> NoDescriptor]
    /\ warnings = << >>

\* Kernel.getPrototypeChain(obj, maxDepth) called by the page.
GetPrototypeChainCall(obj, maxDepth) ==
    /\ chainCall' = [obj |-> obj, maxDepth |-> maxDepth]
                    @@ GetPrototypeChain(hierarchy, obj, maxDepth)
    /\ last' = [NoCall EXCEPT !.op = "getPrototypeChain"]
    /\ UNCHANGED <<hierarchy, kernelCall, watchVars, fusionVars, configVars, lifeVars,
                   mergeVars, frozen, calls>>

NextChain ==
    \E obj \in {"n1", ObjectProto, Null}, maxDepth \in 1..MaxDepth :
        GetPrototypeChainCall(obj, maxDepth)

SpecChain == ChainInit /\ [][NextChain]_vars

\* A direct call of a Kernel primitive by the page.
KernelCall(primitive, argument) ==
    /\ calls < MaxCalls
    /\ calls' = calls + 1
    /\ kernelCall' = KernelResult(primitive, argument)
    /\ last' = [NoCall EXCEPT !.op = "kernel"]
    /\ UNCHANGED <<fusionVars, configVars, lifeVars, mergeVars, watchVars, chainVars, frozen>>

KernelPrimitiveCall ==
    \E primitive \in KernelPrimitives, argument \in KernelArguments :
        KernelCall(primitive, argument)

NextKernel == KernelPrimitiveCall

SpecKernel == Init /\ [][NextKernel]_vars

\* The values a page passes as options.mode: the three policies, two other
\* strings and a number.
OptionModes == Modes \cup {"bogus", "", "42"}

IsStringOption(v) == v # "42"

\* T.configure({mode: v}) throws: it has no throw statement.
ConfigureThrows(v) == FALSE

\* The class whose config object `this.config.mode = ...` writes to.
ConfigureTarget(om, T) == ConfigHolder(om, T)

\* T.configure({mode: v})
Configure(T, v) ==
    LET target == ConfigureTarget(ownMode, T)
        writes == IsStringOption(v) /\ ~ConfigureThrows(v)
    IN
    /\ calls < MaxCalls
    /\ calls' = calls + 1
    /\ configMode' = IF writes /\ target = InstanceClass THEN v ELSE configMode
    /\ ownMode' = IF writes /\ target # InstanceClass
                  THEN [ownMode EXCEPT ![target] = v]
                  ELSE ownMode
    /\ last' = [NoCall EXCEPT !.op = "configure", !.user = T, !.arg = v,
                              !.outcome = IF ConfigureThrows(v) THEN "threw"
                                          ELSE "returned"]
    /\ UNCHANGED <<sideVars, fusionVars, configConstructor, configDebug, lifeVars, mergeVars,
                   frozen>>

\* class T { static config = { constructor: false } }, or the same by
\* assignment: T gets a config object of its own, without a mode.
DeclareOwnConfig(T) ==
    /\ ownMode[T] = None
    /\ calls < MaxCalls
    /\ calls' = calls + 1
    /\ ownMode' = [ownMode EXCEPT ![T] = "unset"]
    /\ last' = [NoCall EXCEPT !.op = "declare", !.user = T]
    /\ UNCHANGED <<sideVars, fusionVars, configConstructor, configMode, configDebug, lifeVars,
                   mergeVars, frozen>>

ConfigureCall == \E T \in UserTypes, v \in OptionModes : Configure(T, v)

DeclareOwnConfigCall == \E T \in SubTypes : DeclareOwnConfig(T)

NextConfig ==
    \/ ConfigureCall
    \/ DeclareOwnConfigCall

SpecConfig == Init /\ [][NextConfig]_vars

\* The elements a page watches for.
WatchedElements == {"div1"}

\* Instance.whenInsertedTo(document.documentElement, element, scope,
\* callback); `throws` tells whether the callback throws when invoked.
WhenInsertedTo(element, scope, throws) ==
    LET id == 1 + Cardinality({i \in WatchIds : watchers[i].state # "none"}) IN
    /\ calls < MaxCalls
    /\ calls' = calls + 1
    /\ IF inDocument[element]
       THEN \* rootNode.contains(element): invokeCallback(element); return
            /\ watchers' = [watchers EXCEPT ![id] =
                               [state |-> "immediate", element |-> element,
                                scope |-> scope, throws |-> throws,
                                fired |-> 1, pending |-> 0]]
            /\ UNCHANGED <<observerOf, connected, registered>>
       ELSE /\ watchers' = [watchers EXCEPT ![id] =
                               [state |-> "connected", element |-> element,
                                scope |-> scope, throws |-> throws,
                                fired |-> 0, pending |-> 0]]
            /\ connected' = [connected EXCEPT ![element] = @ + 1]
            /\ IF scope # None
               THEN /\ observerOf' = [observerOf EXCEPT ![scope] = id]
                    /\ registered' = [registered EXCEPT ![scope] = TRUE]
               ELSE UNCHANGED <<observerOf, registered>>
    /\ last' = [NoCall EXCEPT !.op = "whenInsertedTo", !.element = element,
                              !.outcome = IF inDocument[element] /\ throws
                                          THEN "threw" ELSE "returned"]
    /\ UNCHANGED <<kernelCall, chainVars, fusionVars, configVars, mergeVars, frozen,
                   privateData, storedOptions, inDocument>>

\* parent.appendChild(element) somewhere under the root, also when the
\* element is already there (a move): every connected observer gets a
\* childList record whose added node is the element.
Insert(element) ==
    /\ calls < MaxCalls
    /\ calls' = calls + 1
    /\ inDocument' = [inDocument EXCEPT ![element] = TRUE]
    /\ watchers' = [id \in WatchIds |->
                       IF watchers[id].state = "connected"
                          /\ watchers[id].element = element
                       THEN [watchers[id] EXCEPT !.pending = @ + 1]
                       ELSE watchers[id]]
    /\ last' = [NoCall EXCEPT !.op = "insert", !.element = element]
    /\ UNCHANGED <<kernelCall, chainVars, observerOf, fusionVars, configVars, mergeVars, frozen,
                   privateData, storedOptions, connected, registered>>

\* element.remove(): the record has no added nodes.
Detach(element) ==
    /\ inDocument[element]
    /\ calls < MaxCalls
    /\ calls' = calls + 1
    /\ inDocument' = [inDocument EXCEPT ![element] = FALSE]
    /\ last' = [NoCall EXCEPT !.op = "detach", !.element = element]
    /\ UNCHANGED <<sideVars, fusionVars, configVars, mergeVars, frozen,
                   privateData, storedOptions, connected, registered>>

\* The MutationObserver callback of watcher id runs on its pending records:
\* at the first matching added node it invokes the callback, then
\* disconnects and deletes the entry of its scope; a callback that throws
\* ends the run before the disconnect.
Deliver(id) ==
    LET w == watchers[id] IN
    /\ w.state = "connected"
    /\ w.pending > 0
    /\ IF w.throws
       THEN /\ watchers' = [watchers EXCEPT ![id] =
                               [w EXCEPT !.fired = @ + 1, !.pending = 0]]
            /\ UNCHANGED <<observerOf, connected, registered>>
       ELSE /\ watchers' = [watchers EXCEPT ![id] =
                               [w EXCEPT !.fired = @ + 1, !.pending = 0,
                                         !.state = "disconnected"]]
            /\ connected' = [connected EXCEPT ![w.element] = @ - 1]
            /\ IF w.scope # None
               THEN /\ observerOf' = [observerOf EXCEPT ![w.scope] = 0]
                    /\ registered' = [registered EXCEPT ![w.scope] = FALSE]
               ELSE UNCHANGED <<observerOf, registered>>
    /\ last' = [NoCall EXCEPT !.op = "deliver", !.element = w.element]
    /\ UNCHANGED <<kernelCall, chainVars, fusionVars, configVars, mergeVars, frozen, calls,
                   privateData, storedOptions, inDocument>>

WhenInsertedToCall ==
    \E element \in WatchedElements, throws \in BOOLEAN :
        \E scope \in {None, element} : WhenInsertedTo(element, scope, throws)

InsertCall == \E element \in WatchedElements : Insert(element)

DetachCall == \E element \in WatchedElements : Detach(element)

DeliverCall == \E id \in WatchIds : Deliver(id)

\* Elements made with document.createElement start outside the document.
WatchInit ==
    /\ FusionInit
    /\ hierarchy = NoHierarchy
    /\ configMode = "flexible"
    /\ configDebug = FALSE
    /\ inDocument = [e \in Elements |-> FALSE]
    /\ levels = [k \in Keys |-> NoLevels]
    /\ mergeKey = "color"
    /\ propertyMap = [k \in Keys |-> NoRecord]
    /\ ownProperty = [k \in Keys |-> NoDescriptor]
    /\ warnings = << >>

NextWatch ==
    \/ WhenInsertedToCall
    \/ InsertCall
    \/ DetachCall
    \/ DeliverCall

SpecWatch == WatchInit /\ [][NextWatch]_vars

\* A method, a locked constant (not writable, not configurable) and a getter
\* as a class declares them.
Method ==
    [type |-> "data", value |-> Fn("value"), get |-> Undefined, set |-> Undefined,
     writable |-> TRUE, enumerable |-> FALSE, configurable |-> TRUE]

LockedConstant == [Method EXCEPT !.writable = FALSE, !.configurable = FALSE]

CommitDescriptors == {NoDescriptor, Method, LockedConstant}

\* What the page defines on the element before the merge:
\* Object.defineProperty(element, key, {value: f}).
PageProperty ==
    [type |-> "data", value |-> Fn("page"), get |-> Undefined, set |-> Undefined,
     writable |-> FALSE, enumerable |-> FALSE, configurable |-> FALSE]

\* The merge of a hierarchy that declares `color` at any of its levels and a
\* second key at the most-derived level, on an element the page may have
\* frozen or given an own `color`.
CommitInit ==
    /\ FusionInit
    /\ hierarchy = NoHierarchy
    /\ inDocument = [e \in Elements |-> TRUE]
    /\ configMode \in Modes
    /\ configDebug = FALSE
    /\ mergeKey = "color"
    /\ \E h \in [LevelIds -> CommitDescriptors],
          k2 \in Keys \ {"color"},
          d2 \in CommitDescriptors \ {NoDescriptor} :
           levels = [k \in Keys |->
                       CASE k = "color" -> [i \in LevelIds |-> AtLevel(h[i], i)]
                         [] k = k2      -> [i \in LevelIds |->
                                             IF i = MaxLevels THEN AtLevel(d2, i)
                                             ELSE NoDescriptor]
                         [] OTHER       -> NoLevels]
    /\ propertyMap = [k \in Keys |-> NoRecord]
    /\ ownProperty = [k \in Keys |-> NoDescriptor]
    /\ warnings = << >>

\* Object.defineProperty(element, k, PageProperty) by the page.
PageDefine(element, k) ==
    /\ element = MergedElement
    /\ element \notin frozen
    /\ ownProperty[k].type = "absent"
    /\ calls < MaxCalls
    /\ calls' = calls + 1
    /\ ownProperty' = [ownProperty EXCEPT ![k] = PageProperty]
    /\ last' = [NoCall EXCEPT !.op = "define", !.arg = element]
    /\ UNCHANGED <<sideVars, fusionVars, configVars, lifeVars, levels, mergeKey, propertyMap,
                   warnings, frozen>>

PageDefineCall == PageDefine(MergedElement, "color")

FreezeElementCall == Freeze(MergedElement)

NextCommit ==
    \/ CopyMethodsCall
    \/ PageDefineCall
    \/ FreezeElementCall

SpecCommit == CommitInit /\ [][NextCommit]_vars

\* A page that fuses elements, then runs the merge on one of them: the
\* hierarchy declares `color` at its most-derived level.
FusedInit ==
    /\ FusionInit
    /\ hierarchy = NoHierarchy
    /\ inDocument = [e \in Elements |-> TRUE]
    /\ configMode \in Modes
    /\ configDebug = FALSE
    /\ mergeKey = "color"
    /\ \E d \in CommitDescriptors :
           levels = [k \in Keys |->
                       IF k = "color"
                       THEN [i \in LevelIds |->
                               IF i = MaxLevels THEN AtLevel(d, i) ELSE NoDescriptor]
                       ELSE NoLevels]
    /\ propertyMap = [k \in Keys |-> NoRecord]
    /\ ownProperty = [k \in Keys |-> NoDescriptor]
    /\ warnings = << >>

ConstructTabCall ==
    \E T \in {"Tab", "FancyTab"}, arg \in Elements : Construct(T, arg, TRUE, "default")

NextFused ==
    \/ ConstructTabCall
    \/ CopyMethodsCall

SpecFused == FusedInit /\ [][NextFused]_vars

\* -------------------------------------------------------------- lifecycle
\* What init() is handed: nothing, an options object, or an options object
\* whose `root` is truthy and not a Node.
InitArguments == {"none", "options", "badRoot"}

\* The keys of the object init() spreads into the stored options.
InitOptions(arg) ==
    CASE arg = "options" -> {"label"}
      [] arg = "badRoot" -> {"label", "root"}
      [] OTHER           -> {}

\* instance.init(arg).  The two guards throw before anything is written;
\* the private data is written before Instance.whenInsertedTo validates the
\* root.  The hook init() registers catches what onInserted and sync throw.
InstanceInit(e, arg) ==
    LET id   == 1 + Cardinality({i \in WatchIds : watchers[i].state # "none"})
        main == slot0[e]
        call == [NoCall EXCEPT !.op = "init", !.element = e, !.arg = arg]
    IN
    /\ isInstance[e]
    /\ calls < MaxCalls
    /\ calls' = calls + 1
    /\ UNCHANGED <<kernelCall, chainVars, fusionVars, configVars, mergeVars, frozen,
                   inDocument>>
    /\ IF privateData[e] = "initialized"
       THEN /\ last' = [call EXCEPT !.outcome = "threw", !.failed = "already"]
            /\ UNCHANGED <<watchVars, privateData, storedOptions, connected, registered>>
       ELSE IF main = None
       THEN /\ last' = [call EXCEPT !.outcome = "threw", !.failed = "main"]
            /\ UNCHANGED <<watchVars, privateData, storedOptions, connected, registered>>
       ELSE /\ privateData' = [privateData EXCEPT ![e] = "initialized"]
            /\ storedOptions' = [storedOptions EXCEPT ![e] = @ \cup InitOptions(arg)]
            /\ IF arg = "badRoot"
               THEN /\ last' = [call EXCEPT !.outcome = "threw", !.failed = "root"]
                    /\ UNCHANGED <<watchVars, connected, registered>>
               ELSE /\ last' = [call EXCEPT !.outcome = "returned"]
                    /\ IF inDocument[main]
                       THEN /\ watchers' = [watchers EXCEPT ![id] =
                                              [state |-> "immediate", element |-> main,
                                               scope |-> e, throws |-> FALSE,
                                               fired |-> 1, pending |-> 0]]
                            /\ UNCHANGED <<observerOf, connected, registered>>
                       ELSE /\ watchers' = [watchers EXCEPT ![id] =
                                              [state |-> "connected", element |-> main,
                                               scope |-> e, throws |-> FALSE,
                                               fired |-> 0, pending |-> 0]]
                            /\ connected' = [connected EXCEPT ![main] = @ + 1]
                            /\ observerOf' = [observerOf EXCEPT ![e] = id]
                            /\ registered' = [registered EXCEPT ![e] = TRUE]

\* instance.remove(): the main element leaves its parent, then the observer
\* the table holds for the instance is disconnected and its entry deleted.
\* disconnect() also empties the record queue of that observer.
Remove(e) ==
    LET id   == observerOf[e]
        main == slot0[e]
    IN
    /\ isInstance[e]
    /\ calls < MaxCalls
    /\ calls' = calls + 1
    /\ inDocument' = IF main # None /\ inDocument[main]
                     THEN [inDocument EXCEPT ![main] = FALSE]
                     ELSE inDocument
    /\ IF id # 0
       THEN /\ watchers' = [watchers EXCEPT ![id] =
                              [@ EXCEPT !.state = "disconnected", !.pending = 0]]
            /\ connected' = [connected EXCEPT ![watchers[id].element] = @ - 1]
            /\ observerOf' = [observerOf EXCEPT ![e] = 0]
            /\ registered' = [registered EXCEPT ![e] = FALSE]
       ELSE UNCHANGED <<watchVars, connected, registered>>
    /\ last' = [NoCall EXCEPT !.op = "remove", !.element = e, !.outcome = "returned"]
    /\ UNCHANGED <<kernelCall, chainVars, fusionVars, configVars, mergeVars, frozen,
                   privateData, storedOptions>>

\* The instances of the lifecycle runs: made from elements that
\* document.createElement returned, with {autoInit: false}.
LifeElements == {"div1"}

ConstructDetachedCall ==
    \E arg \in LifeElements : Construct("Tab", arg, FALSE, "default")

InstanceInitCall == \E e \in LifeElements, arg \in InitArguments : InstanceInit(e, arg)

ClearMainCall == \E e \in LifeElements : SetMain(e, None)

ScopedWhenInsertedToCall ==
    \E e \in LifeElements : WhenInsertedTo(e, e, FALSE)

InsertLifeCall == \E e \in LifeElements : Insert(e)

RemoveCall == \E e \in LifeElements : Remove(e)

NextLife ==
    \/ ConstructDetachedCall
    \/ InstanceInitCall
    \/ ClearMainCall
    \/ ScopedWhenInsertedToCall
    \/ InsertLifeCall
    \/ DeliverCall
    \/ RemoveCall

SpecLife == WatchInit /\ [][NextLife]_vars

\* ------------------------------------------------------------------ claims
Returned == last.op = "construct" /\ last.outcome = "returned"

\* The prototype chain of an object created with T.prototype as prototype and
\* never passed to the constructor (Object.create(T.prototype), or the `this`
\* the constructor throws away).
UnfusedChain(T) == {T} \cup Ancestors(protoOf, T, ChainFuel)

\* instance.constructor.native
RecordedNative(e) == StaticNative(nativeStatic, bridgeUser, ElementConstructor(e))

\* C1: when `new T(instance)` returns, the instance has on its prototype
\* chain T, every ancestor of T, a specialized class made for T, the host
\* class H it was fused with and every ancestor of H.
C1_MembershipAfterFusion ==
    Returned =>
        LET e == last.ret
            T == last.user
            H == last.host
        IN /\ \A C \in {T} \cup UserAncestors(T) \cup {H} \cup HostAncestors(H) :
                  IsPrototypeOf(protoOf, C, e)
           /\ protoOf[e] \in Bridges
           /\ bridgeUser[protoOf[e]] = T

\* C2: two instances fused with the same user class and different host
\* classes each keep their own host class on their chain, whatever the order
\* of the two fusions.
C2_IndependentLineages ==
    \A e1, e2 \in Elements :
        ( /\ isInstance[e1] /\ isInstance[e2]
          /\ instanceClass[e1] = instanceClass[e2]
          /\ fusedHost[e1] # fusedHost[e2] )
        => /\ IsPrototypeOf(protoOf, fusedHost[e1], protoOf[e1])
           /\ IsPrototypeOf(protoOf, fusedHost[e2], protoOf[e2])

\* C3: at most one specialized class is created per (UserClass,
\* NativeElementClass) pair: the first fusion of a pair creates one and caches
\* it, a later fusion of the pair creates none, and the instance points at the
\* cached class.
C3_OneBridgePerPair ==
    /\ \A b1, b2 \in Bridges :
           ( /\ bridgeUser[b1] # None /\ b1 # b2
             /\ bridgeUser[b1] = bridgeUser[b2] )
           => bridgeHost[b1] # bridgeHost[b2]
    /\ Returned =>
           /\ last.createdNow = (IF last.firstOfPair THEN 1 ELSE 0)
           /\ protoOf[last.ret] = cache[CacheKey(last.user, last.host)]

C5_UnfusedHasNoHost ==
    \A T \in UserTypes : UnfusedChain(T) \cap HostClasses = {}

\* C6: the constructor returns the element it resolved from its argument -
\* the argument itself unless the argument is a fused element whose [0] was
\* pointed elsewhere - and that element is its own [0], also when it is
\* fused again.
C6_ReturnsSameReference ==
    Returned =>
        /\ last.ret = last.element
        /\ last.ret \in Elements
        /\ slot0[last.ret] = last.ret
        /\ isInstance[last.ret]

C6_Witness ==
    /\ Returned
    /\ last.again
    /\ last.ret = last.arg
    /\ calls >= 2

\* C7: a construction that returns has run the fusion once and the merge
\* once, the fusion first.
C7_FusionThenMergeOnce ==
    Returned =>
        LET idx(x) == {i \in DOMAIN last.steps : last.steps[i] = x} IN
        /\ Cardinality(idx("fuse")) = 1
        /\ Cardinality(idx("merge")) = 1
        /\ \A i \in idx("fuse"), j \in idx("merge") : i < j

\* C8: a prototype redirection that fails does not make the constructor
\* throw: a warning is logged, the element keeps T on its chain and is
\* returned.
C8_RedirectionFailureIsNotFatal ==
    (last.op = "construct" /\ last.failed \in {"link", "element"}) =>
        /\ last.outcome = "returned"
        /\ last.warned
        /\ IsPrototypeOf(protoOf, last.user, last.element)

\* C9: instance.constructor.native of a fused instance is the host class
\* that instance was fused with.
C9_RecordedNativeIsOwnHost ==
    \A e \in Elements :
        (isInstance[e] /\ ownConstructor[e] # None) =>
            RecordedNative(e) = fusedHost[e]

Merged == last.op = "copyMethods"

\* The levels of the hierarchy that define the key.
DefiningLevels == {i \in LevelIds : levels[mergeKey][i].type # "absent"}

MostDerived == CHOOSE i \in DefiningLevels : \A j \in DefiningLevels : j <= i

\* The descriptor d with its functions bound to the element.
BoundVerbatim(d, element) ==
    [d EXCEPT !.value = IF IsFunction(@) THEN Bind(@, element) ELSE @,
              !.get   = IF IsFunction(@) THEN Bind(@, element) ELSE @,
              !.set   = IF IsFunction(@) THEN Bind(@, element) ELSE @]

\* C10: under `flexible` the property committed to the element is the
\* descriptor of the most-derived level that defines the key - its value or
\* its two accessor halves (undefined where that level has none) and its
\* writable, enumerable and configurable flags - whatever the ancestors
\* declare.
C10_FlexibleLeafVerbatim ==
    (Merged /\ configMode = "flexible" /\ DefiningLevels # {}) =>
        ownProperty[mergeKey] = BoundVerbatim(levels[mergeKey][MostDerived], last.element)

\* The descriptors of the key under study, root level first.
Declared(i) == levels[mergeKey][i]

DataLevels == {i \in DefiningLevels : Declared(i).type = "data"}
AccessorLevels == {i \in DefiningLevels : Declared(i).type = "accessor"}

\* C11: under `strict`, when the most-derived defining level redefines a
\* data property of an ancestor as data, the committed property has that
\* level's value, is writable only if every level that declared it as data
\* is writable, whatever the levels in between are, and is configurable only
\* if no level declared it non-configurable.
C11_StrictDataUnion ==
    ( /\ Merged /\ configMode = "strict"
      /\ DefiningLevels # {}
      /\ MostDerived \in DataLevels
      /\ DataLevels # {MostDerived} )
    => LET p == ownProperty[mergeKey] IN
       /\ p.type = "data"
       /\ p.value = Bind(Declared(MostDerived).value, last.element)
       /\ p.writable = (\A i \in DataLevels : Declared(i).writable)
       /\ p.configurable = (\A i \in DefiningLevels : Declared(i).configurable)

\* Pass 1 of the last merge for the key under study: w[i].entry is the record
\* after level i.
Walk == History(configMode, mergeKey, last.element, levels[mergeKey], 1, NoRecord)

\* The levels after which the record is locked.
LockedAfter(w) == {i \in LevelIds : w[i].entry.type # "none" /\ w[i].entry.shouldLock}

LockLevel(w) == CHOOSE i \in LockedAfter(w) : \A j \in LockedAfter(w) : i <= j

\* The warnings of the last merge with message msg.
Logged(msg) == {n \in DOMAIN warnings : warnings[n] = [msg |-> msg, key |-> mergeKey]}

HalfLevels(half) == {i \in AccessorLevels : Truthy(Declared(i)[half])}

MostDerivedHalf(half) ==
    IF HalfLevels(half) = {} THEN 0
    ELSE CHOOSE i \in HalfLevels(half) : \A j \in HalfLevels(half) : j <= i

\* The half the claim expects on the element.
ExpectedHalf(half) ==
    IF MostDerivedHalf(half) = 0 THEN Undefined
    ELSE Bind(Declared(MostDerivedHalf(half))[half], last.element)

\* C13: under `strict`, for a key that every defining level declares as an
\* accessor, the committed getter is the getter of the most-derived level
\* that defines one and the committed setter the setter of the most-derived
\* level that defines one; under `strictest` the same holds when no level
\* below the most-derived one locked the record.
C13_PartialAccessorMerge ==
    ( /\ Merged
      /\ DataLevels = {}
      /\ HalfLevels("get") \cup HalfLevels("set") # {}
      /\ \/ configMode = "strict"
         \/ /\ configMode = "strictest"
            /\ \A i \in AccessorLevels : i < MostDerived => Declared(i).configurable )
    => /\ ownProperty[mergeKey].type = "accessor"
       /\ ownProperty[mergeKey].get = ExpectedHalf("get")
       /\ ownProperty[mergeKey].set = ExpectedHalf("set")

C13_Witness ==
    /\ Merged /\ configMode = "strict"
    /\ Declared(1).type = "absent"
    /\ Declared(2).type = "accessor" /\ Truthy(Declared(2).get) /\ ~Truthy(Declared(2).set)
    /\ Declared(3).type = "accessor" /\ ~Truthy(Declared(3).get) /\ Truthy(Declared(3).set)
    /\ ownProperty[mergeKey].get = Bind(Declared(2).get, last.element)
    /\ ownProperty[mergeKey].set = Bind(Declared(3).set, last.element)

\* Once the record is locked after a level it is locked after every
\* more-derived level, and the property on the element is not configurable.
LockIsMonotonic ==
    \A w \in {Walk} : LockedAfter(w) # {} =>
        /\ \A j \in LevelIds : j >= LockLevel(w) => j \in LockedAfter(w)
        /\ propertyMap[mergeKey].shouldLock
        /\ ownProperty[mergeKey].type # "absent"
        /\ ~ownProperty[mergeKey].configurable

C15_HostNativeNeverCopied ==
    Merged =>
        \A k \in Keys :
            IsNativeDOMProperty(last.element, k) => ownProperty[k].type = "absent"

\* The keys with a record in propertyMap, and those whose definition the
\* last merge logged as failed.
Recorded == {k \in Keys : propertyMap[k].type # "none"}

FailureLogged(k) ==
    \E n \in DOMAIN warnings :
        warnings[n] = FailedToDefine(CommitDescriptor(propertyMap[k]), k)

\* C16: Pass 2 does not throw, and a definition that fails is logged and
\* skipped without touching the others: every record whose definition was
\* not logged as failed is on the element as committed, with configurable =
\* NOT lockable.
C16_PassTwoFailureIsLocal ==
    Merged =>
        /\ last.outcome = "returned"
        /\ \A k \in Recorded :
               \/ FailureLogged(k)
               \/ /\ ownProperty[k] = CommitDescriptor(propertyMap[k])
                  /\ ownProperty[k].configurable = ~propertyMap[k].shouldLock

C16_Witness ==
    /\ Merged
    /\ MergedElement \notin frozen
    /\ {"color", "value"} \subseteq Recorded
    /\ FailureLogged("color")
    /\ ownProperty["color"] = PageProperty
    /\ ~FailureLogged("value")
    /\ ownProperty["value"] = CommitDescriptor(propertyMap["value"])

\* C17: a call of a Kernel primitive never throws, whatever its argument:
\* when the captured built-in fails the wrapper returns its safe default.
C17_KernelNeverThrows ==
    kernelCall.primitive # None =>
        /\ kernelCall.outcome = "returned"
        /\ RawThrows(kernelCall.primitive, kernelCall.argument) =>
               kernelCall.value = SafeDefault(kernelCall.primitive)

\* The policy a merge for an object of class T consults.
PolicyOf(T) == ModeFor(configMode, ownMode, T)

\* C18: configure called with a policy value other than flexible, strict or
\* strictest throws and leaves every configured policy as it was, and the
\* policy a merge consults is always one of the three.
C18_ConfigureRejectsInvalid ==
    /\ [](\A T \in UserTypes : PolicyOf(T) \in Modes)
    /\ [][ (last'.op = "configure" /\ calls' # calls /\ last'.arg \notin Modes)
             => /\ last'.outcome = "threw"
                /\ configMode' = configMode
                /\ ownMode' = ownMode ]_vars

\* C19: configure invoked for a user class other than Instance sets the
\* policy of that class (and of the classes that inherit its config) only:
\* Instance.config.mode and the policy of every class that does not extend
\* it are unchanged; the class itself then has the policy it was given.
C19_ConfigureIsScoped ==
    [][ ( /\ last'.op = "configure" /\ calls' # calls
          /\ last'.user # InstanceClass
          /\ last'.arg \in Modes )
        => /\ configMode' = configMode
           /\ \A U \in UserTypes :
                  (U # last'.user /\ last'.user \notin UserAncestors(U)) =>
                      ModeFor(configMode', ownMode', U) = PolicyOf(U)
           /\ ModeFor(configMode', ownMode', last'.user) = last'.arg ]_vars

\* C20: every registration fires its callback at most once, and a watcher
\* that has fired is disconnected and is not the entry of its scope in
\* Instance.#observers.
C20_WatchersAreOneShot ==
    \A id \in WatchIds :
        /\ watchers[id].fired <= 1
        /\ watchers[id].fired >= 1 =>
               /\ watchers[id].state \in {"immediate", "disconnected"}
               /\ watchers[id].scope # None => observerOf[watchers[id].scope] # id

\* C21: two distinct user classes with the same name, each fused with the
\* same host class, get two distinct specialized classes, and each instance
\* has its own user class on its prototype chain.
C21_CacheKeyedByIdentity ==
    \A e1, e2 \in Elements :
        ( /\ isInstance[e1] /\ isInstance[e2]
          /\ instanceClass[e1] # instanceClass[e2]
          /\ ClassName(instanceClass[e1]) = ClassName(instanceClass[e2])
          /\ fusedHost[e1] = fusedHost[e2] )
        => /\ protoOf[e1] # protoOf[e2]
           /\ IsPrototypeOf(protoOf, instanceClass[e1], e1)
           /\ IsPrototypeOf(protoOf, instanceClass[e2], e2)

\* C22: a construction writes to no user class other than the shared root
\* and to no host class: the prototype pointer of every user class below
\* Instance and of every host class, and the own static properties of every
\* user class, are what they were before the call.
C22_FusionLeavesTypesUnmutated ==
    [][ (last'.op = "construct" /\ calls' # calls)
        => /\ \A n \in SubTypes \cup HostClasses : protoOf'[n] = protoOf[n]
           /\ nativeStatic' = nativeStatic ]_vars

\* C29: a fused instance constructed as T is an instance of a user class U
\* only if U is T, an ancestor of T or Instance.
C29_HasInstanceDiscriminates ==
    \A e \in Elements, U \in UserTypes :
        (isInstance[e] /\ InstanceOf(e, U)) =>
            U \in {instanceClass[e], InstanceClass} \cup UserAncestors(instanceClass[e])

\* The defining levels whose kind differs from the kind of the nearest
\* defining level below them.
KindChanges ==
    {j \in DefiningLevels :
        \E i \in DefiningLevels :
            /\ i < j
            /\ \A m \in DefiningLevels : ~(i < m /\ m < j)
            /\ Declared(i).type # Declared(j).type}

\* C23: under `strict` the committed property has the kind of the
\* most-derived level that defines the key, and one diagnostic is logged for
\* every change of kind between two levels.
C23_StrictKindChangeLogged ==
    (Merged /\ configMode = "strict" /\ DefiningLevels # {}) =>
        /\ ownProperty[mergeKey].type = Declared(MostDerived).type
        /\ Cardinality(Logged("Converting property type for")) = Cardinality(KindChanges)

\* C24: under `strictest`, a level that changes the kind of a key is
\* rejected when the record of the key is locked - the record stays as it
\* was - and is applied when the record is not locked: the record then has
\* the kind of that level.
C24_StrictestKindChange ==
    (Merged /\ configMode = "strictest") =>
        \A w \in {Walk} :
            \A j \in DefiningLevels \ {1} :
                ( /\ w[j - 1].entry.type # "none"
                  /\ w[j - 1].entry.type # Declared(j).type )
                => IF w[j - 1].entry.shouldLock
                   THEN w[j].entry = w[j - 1].entry
                   ELSE w[j].entry.type = Declared(j).type

ChainCalled == last.op = "getPrototypeChain"

\* The node the walk would have visited next when it returned.
NextOfChain ==
    IF chainCall.chain = << >> THEN chainCall.obj
    ELSE hierarchy[chainCall.chain[Len(chainCall.chain)]]

\* C25: Kernel.getPrototypeChain(obj, maxDepth) returns the nodes from obj
\* ancestor-ward, each the prototype of the one before, with no node
\* repeated, at most maxDepth of them and never Object.prototype; when it
\* returns before the end of the hierarchy - on a cycle or at the depth
\* bound - it has logged a warning.
C25_PrototypeChainIsBounded ==
    ChainCalled =>
        LET chain == chainCall.chain IN
        /\ Len(chain) <= chainCall.maxDepth
        /\ \A i \in DOMAIN chain : chain[i] \in ChainNodes
        /\ chain # << >> => chain[1] = chainCall.obj
        /\ \A i \in DOMAIN chain : i > 1 => chain[i] = hierarchy[chain[i - 1]]
        /\ \A i, j \in DOMAIN chain : i # j => chain[i] # chain[j]
        /\ NextOfChain \notin {Null, ObjectProto} => chainCall.warned # << >>

\* A walk around a cycle of two nodes with room to spare, and a hierarchy
\* deeper than maxDepth.
C25_Witness ==
    /\ ChainCalled
    /\ chainCall.obj = "n1" /\ chainCall.maxDepth = MaxDepth
    /\ hierarchy["n1"] = "n2" /\ hierarchy["n2"] = "n1"
    /\ chainCall.chain = <<"n1", "n2">>
    /\ chainCall.warned = <<"Circular prototype chain detected">>

\* The keys, kinds and flags of a set of own properties.
PropertyShape(own) ==
    [k \in Keys |-> [type |-> own[k].type, writable |-> own[k].writable,
                     enumerable |-> own[k].enumerable,
                     configurable |-> own[k].configurable]]

\* A fused element the merge has not been run on.
FreshlyFused(element) ==
    /\ isInstance[element]
    /\ element \notin frozen
    /\ \A k \in Keys : ownProperty[k].type = "absent"

\* The own properties the merge gives the first instance of the element's
\* pair when it is run right after the fusion that made the pair's
\* specialized class, Instance.prototype then pointing at the pair's host
\* class.
FirstOfPairMerge(element) ==
    LET po    == [protoOf EXCEPT ![InstanceClass] = fusedHost[element]]
        hist  == [k \in Keys |->
                    History(MergeMode, k, element, ChainLevels(po, levels, k), 1, NoRecord)]
        final == [k \in Keys |-> PassOne(hist[k])]
    IN PassTwo(final, [k \in Keys |-> NoDescriptor], FALSE, MapOrder(hist, 1, 1)).own

\* C26: the merge run on a freshly fused instance commits own properties
\* with the same keys, kinds and flags as it committed to the first instance
\* of the same pair, whatever fusions happened since.
C26_MergeIsDeterministic ==
    [][ (last'.op = "copyMethods" /\ FreshlyFused(MergedElement))
        => PropertyShape(ownProperty') = PropertyShape(FirstOfPairMerge(MergedElement)) ]_vars

\* f, when it is a function, runs with e as receiver however it is invoked.
BoundTo(f, e) == f.kind = "function" => f.this = e

\* C27: after the merge for an element, every function in a record of the
\* map and in a property committed to the element - a method, a getter, a
\* setter, also a half kept from an ancestor level - is bound to that
\* element.
C27_StoredFunctionsAreBound ==
    Merged =>
        \A k \in Keys :
            /\ BoundTo(propertyMap[k].value, last.element)
            /\ BoundTo(propertyMap[k].get, last.element)
            /\ BoundTo(propertyMap[k].set, last.element)
            /\ BoundTo(ownProperty[k].value, last.element)
            /\ BoundTo(ownProperty[k].get, last.element)
            /\ BoundTo(ownProperty[k].set, last.element)

\* A getter kept from the root level next to the setter of the level above
\* it, both bound to the element.
C27_Witness ==
    /\ Merged /\ configMode = "strictest"
    /\ Declared(1).type = "accessor" /\ Truthy(Declared(1).get) /\ ~Truthy(Declared(1).set)
    /\ Declared(1).configurable
    /\ Declared(2).type = "accessor" /\ ~Truthy(Declared(2).get) /\ Truthy(Declared(2).set)
    /\ Declared(3).type = "absent"
    /\ ownProperty[mergeKey].get = [Declared(1).get EXCEPT !.this = MergedElement]
    /\ ownProperty[mergeKey].set = [Declared(2).set EXCEPT !.this = MergedElement]

\* The instance has a hook: a watcher whose scope it is was registered or
\* ran at once.
HookRegistered(e) == \E id \in WatchIds : watchers[id].state # "none" /\ watchers[id].scope = e

\* C28: whenever a call to init() throws, isInitialized and the stored
\* options of the instance are after the call what they were before it, and
\* isInitialized is true only if an init() call registered its insertion
\* hook.
C28_InitIsAllOrNothing ==
    /\ [][(last'.op = "init" /\ last'.outcome = "threw")
            => /\ privateData'[last'.element] = privateData[last'.element]
               /\ storedOptions'[last'.element] = storedOptions[last'.element]]_vars
    /\ [](\A e \in Elements : privateData[e] = "initialized" => HookRegistered(e))

\* C30: when remove() has returned for an instance, no watcher registered
\* with the instance as its scope is connected, whatever number of them was
\* registered, and the observers table has no entry for the instance.
C30_RemoveDisconnectsScopedWatchers ==
    [][last'.op = "remove"
         => /\ \A id \in WatchIds :
                  watchers'[id].scope = last'.element => watchers'[id].state # "connected"
            /\ observerOf'[last'.element] = 0]_vars
====
